---- MODULE Spec2Model ----
(***************************************************************************)
(* IQReportService.GenerateLatestPolicyReport                              *)
(* (internal/services/iqreport.go): the sequential prerequisites, the      *)
(* bounded fan-out of one goroutine per application over the semaphore     *)
(* channel sem, the fan-in over resultsChan, and the final CSV write.      *)
(*                                                                         *)
(* Strings that the code inspects (ReportHTMLURL) are sequences of tokens, *)
(* so that strings.TrimSpace and strings.Cut are computed, not assumed.    *)
(***************************************************************************)
EXTENDS Integers, Sequences, FiniteSets, Bags, TLC

(***************************************************************************)
(* Bounds of the model.                                                    *)
(***************************************************************************)
\* Largest application list GetApplications returns.
MaxApps == 2
\* Largest number of violation rows GetPolicyViolations returns for one report.
MaxRows == 2
\* Capacity of sem.  iqreport.go:80 fixes it at 10; the contract takes it as
\* the parameter maxConcurrency >= 1.  It is scaled below MaxApps here so that
\* goroutines do wait for a ticket.
maxConcurrency == 1

(***************************************************************************)
(* Data.                                                                   *)
(***************************************************************************)
\* The delimiter of strings.Cut, and the whitespace token.
Marker == "/report/"
Space == " "

\* ReportHTMLURL values the remote source returns: blank, without the marker,
\* with the marker and nothing after it, and well formed (with leading space
\* and a second marker in the remainder).
BlankURL == <<Space>>
NoMarkerURL == <<"http://iq/ui">>
NoIDURL == <<"http://iq/ui", Marker>>
GoodURL == <<Space, "http://iq/ui", Marker, "r1", Marker, "r2">>
URLs == {BlankURL, NoMarkerURL, NoIDURL, GoodURL}

\* Applications of the remote source, in the order it lists them: application
\* 2 belongs to an organization that no organization list names.
AppPool ==
    [i \in 1..MaxApps |->
        [ID |-> i, PublicID |-> 100 + i,
         OrganizationID |-> IF i = 2 THEN "org-b" ELSE "org-a"]]

\* Application lists GetApplications may return: every prefix of the pool.
AppLists == {SubSeq(AppPool, 1, n) : n \in 0..MaxApps}

\* Organization lists GetOrganizations may return: one that names org-a twice.
OrgLists ==
    { <<[ID |-> "org-a", Name |-> "Old A"], [ID |-> "org-c", Name |-> "Org C"],
        [ID |-> "org-a", Name |-> "Org A"]>> }

\* Results of GetLatestReportInfo: an error, an absent report, or a report.
InfoResults ==
    { [err |-> TRUE, isNil |-> TRUE, ReportHTMLURL |-> <<>>],
      [err |-> FALSE, isNil |-> TRUE, ReportHTMLURL |-> <<>>] }
    \cup { [err |-> FALSE, isNil |-> FALSE, ReportHTMLURL |-> u] : u \in URLs }

\* client.ViolationRow values GetPolicyViolations returns for a report: n rows
\* that carry the application, the organization name it was called with, and
\* a policy that tells the rows of one report apart.
ViolationRows(appPublicID, rid, org, n) ==
    [k \in 1..n |->
        [Application |-> appPublicID, Organization |-> org, Policy |-> k,
         Format |-> "maven", Component |-> rid, Threat |-> 7,
         PolicyAction |-> "Fail", ConstraintName |-> "c",
         Condition |-> "cond", CVE |-> "CVE-1"]]

\* Row counts of a report: none, or the most.
RowCounts == {0, MaxRows}

\* Results of GetPolicyViolations: an error or a row sequence.
ViolationResults(appPublicID, rid, org) ==
    { [err |-> TRUE, rows |-> <<>>] }
    \cup { [err |-> FALSE, rows |-> ViolationRows(appPublicID, rid, org, n)] :
             n \in RowCounts }

(***************************************************************************)
(* Pure functions of the code.                                             *)
(***************************************************************************)
RECURSIVE TrimLeft(_)
TrimLeft(s) ==
    IF s # <<>> /\ Head(s) = Space THEN TrimLeft(Tail(s)) ELSE s

RECURSIVE TrimRight(_)
TrimRight(s) ==
    IF s # <<>> /\ s[Len(s)] = Space
    THEN TrimRight(SubSeq(s, 1, Len(s) - 1))
    ELSE s

\* strings.TrimSpace
TrimSpace(s) == TrimRight(TrimLeft(s))

\* strings.Cut(s, sep): the text before and after the first sep, and found.
Cut(s, sep) ==
    LET hits == {i \in 1..Len(s) : s[i] = sep}
    IN  IF hits = {}
        THEN [before |-> s, after |-> <<>>, found |-> FALSE]
        ELSE LET i == CHOOSE j \in hits : \A h \in hits : j <= h
             IN  [before |-> SubSeq(s, 1, i - 1),
                  after |-> SubSeq(s, i + 1, Len(s)),
                  found |-> TRUE]

\* The loop of lines 69-72: later entries overwrite earlier ones.
RECURSIVE BuildOrgMap(_)
BuildOrgMap(orgs) ==
    IF orgs = <<>>
    THEN << >>
    ELSE LET n == Len(orgs)
             m == BuildOrgMap(SubSeq(orgs, 1, n - 1))
         IN  [k \in (DOMAIN m) \cup {orgs[n].ID} |->
                 IF k = orgs[n].ID THEN orgs[n].Name ELSE m[k]]

\* A lookup without the fallback: the map's zero value for a missing key.
ResolveOrgNameBlank(table, orgID) ==
    IF orgID \in DOMAIN table THEN table[orgID] ELSE ""

\* Lines 133-137: the table's name, or the raw organization ID.
ResolveOrgName(table, orgID) ==
    IF orgID \in DOMAIN table THEN table[orgID] ELSE orgID

\* Lines 150-161: client.ViolationRow to report.Row, field by field.
RowMapper(r) ==
    [Application |-> r.Application, Organization |-> r.Organization,
     Policy |-> r.Policy, Format |-> r.Format, Component |-> r.Component,
     Threat |-> r.Threat, PolicyAction |-> r.PolicyAction,
     ConstraintName |-> r.ConstraintName, Condition |-> r.Condition,
     CVE |-> r.CVE]

\* A conversion that fills the rows from the last to the first.
ConvertRowsReversed(clientRows) ==
    [i \in 1..Len(clientRows) |-> clientRows[Len(clientRows) + 1 - i]]

\* A conversion that allocates and fills one row too few.
ConvertRowsShort(clientRows) ==
    [i \in 1..(Len(clientRows) - 1) |-> clientRows[i]]

\* Lines 148-162.
ConvertRows(clientRows) == [i \in 1..Len(clientRows) |-> RowMapper(clientRows[i])]

(***************************************************************************)
(* State.                                                                  *)
(***************************************************************************)
VARIABLES
    mainPc,            \* position of GenerateLatestPolicyReport
    ctxDone,           \* ctx has been canceled (or its deadline has passed)
    apps,              \* the application list
    orgIDToName,       \* the organization ID-to-name map
    next,              \* index of the next application of the launch loop
    sem,               \* number of elements buffered in the semaphore channel
    resultsChan,       \* buffer of the results channel
    chanClosed,        \* resultsChan has been closed
    wg,                \* counter of the WaitGroup
    closerPc,          \* position of the goroutine of lines 173-176
    allViolationRows,  \* the aggregate
    retPath, retErr,   \* what GenerateLatestPolicyReport returns
    pc,                \* position of each application's goroutine
    reportID,          \* per goroutine: the parsed report ID
    orgName,           \* per goroutine: the resolved organization name
    reportRows,        \* per goroutine: the converted rows
    infoLog,           \* per goroutine: results of its GetLatestReportInfo calls
    violLog,           \* per goroutine: arguments and results of its GetPolicyViolations calls
    acquired,          \* per goroutine: sends on sem
    released,          \* per goroutine: receives from sem
    delivered,         \* per goroutine: sends on resultsChan
    closes,            \* number of close(resultsChan)
    sinkLog            \* calls of report.WriteCSV: path, rows, and whether it failed

mainVars == <<mainPc, apps, orgIDToName, next, allViolationRows, retPath, retErr, sinkLog>>
syncVars == <<sem, resultsChan, chanClosed, wg, closerPc, closes>>
taskVars == <<pc, reportID, orgName, reportRows>>
logVars == <<infoLog, violLog, acquired, released, delivered>>
vars == <<mainVars, syncVars, taskVars, logVars, ctxDone>>

Tasks == 1..MaxApps

\* The capacity of the results channel taken for the semaphore's.
SemCapLenApps == Len(apps)

\* cap(sem), line 80.
SemCap == maxConcurrency

\* A results channel one slot short of the number of applications.
ResultsCapShort == Len(apps) - 1

\* cap(resultsChan), line 81.
ResultsCap == Len(apps)

\* filepath.Join(s.cfg.OutputDir, filename), line 190.
Target == "reports_output/report.csv"

Init ==
    /\ mainPc = "getApplications"
    /\ ctxDone = FALSE
    /\ apps = <<>>
    /\ orgIDToName = << >>
    /\ next = 1
    /\ sem = 0
    /\ resultsChan = <<>>
    /\ chanClosed = FALSE
    /\ wg = 0
    /\ closerPc = "idle"
    /\ allViolationRows = <<>>
    /\ retPath = ""
    /\ retErr = ""
    /\ pc = [i \in Tasks |-> "idle"]
    /\ reportID = [i \in Tasks |-> <<>>]
    /\ orgName = [i \in Tasks |-> ""]
    /\ reportRows = [i \in Tasks |-> <<>>]
    /\ infoLog = [i \in Tasks |-> <<>>]
    /\ violLog = [i \in Tasks |-> <<>>]
    /\ acquired = [i \in Tasks |-> 0]
    /\ released = [i \in Tasks |-> 0]
    /\ delivered = [i \in Tasks |-> 0]
    /\ closes = 0
    /\ sinkLog = <<>>

(***************************************************************************)
(* The context: canceled by the caller, or by its deadline, at any moment  *)
(* of the run.                                                             *)
(***************************************************************************)
Cancel ==
    /\ mainPc # "done"
    /\ ~ctxDone
    /\ ctxDone' = TRUE
    /\ UNCHANGED <<mainVars, syncVars, taskVars, logVars>>

(***************************************************************************)
(* GenerateLatestPolicyReport, sequential setup (lines 51-73).             *)
(***************************************************************************)
\* The application list without the check for an empty one.
GetApplicationsNoEmptyCheck ==
    /\ mainPc = "getApplications"
    /\ \E failed \in BOOLEAN, list \in AppLists :
          IF failed
          THEN /\ retErr' = "get applications"
               /\ mainPc' = "done"
               /\ apps' = apps
          ELSE /\ apps' = list
               /\ retErr' = retErr
               /\ mainPc' = "getOrganizations"
    /\ UNCHANGED <<orgIDToName, next, allViolationRows, retPath, sinkLog>>
    /\ UNCHANGED <<syncVars, taskVars, logVars, ctxDone>>

\* Lines 51-61: the application list, and the check for an empty one.
GetApplications ==
    /\ mainPc = "getApplications"
    /\ \E failed \in BOOLEAN, list \in AppLists :
          IF failed
          THEN /\ retErr' = "get applications"
               /\ mainPc' = "done"
               /\ apps' = apps
          ELSE /\ apps' = list
               /\ IF Len(list) = 0
                  THEN retErr' = "no applications found" /\ mainPc' = "done"
                  ELSE retErr' = retErr /\ mainPc' = "getOrganizations"
    /\ UNCHANGED <<orgIDToName, next, allViolationRows, retPath, sinkLog>>
    /\ UNCHANGED <<syncVars, taskVars, logVars, ctxDone>>

\* An organization list whose error is recorded but not returned.
GetOrganizationsNoReturn ==
    /\ mainPc = "getOrganizations"
    /\ \E failed \in BOOLEAN, orgs \in OrgLists :
          IF failed
          THEN /\ retErr' = "get organizations"
               /\ mainPc' = "launch"
               /\ orgIDToName' = orgIDToName
          ELSE /\ orgIDToName' = BuildOrgMap(orgs)
               /\ mainPc' = "launch"
               /\ retErr' = retErr
    /\ UNCHANGED <<apps, next, allViolationRows, retPath, sinkLog>>
    /\ UNCHANGED <<syncVars, taskVars, logVars, ctxDone>>

\* Lines 64-73: the organization list and the ID-to-name map.
GetOrganizations ==
    /\ mainPc = "getOrganizations"
    /\ \E failed \in BOOLEAN, orgs \in OrgLists :
          IF failed
          THEN /\ retErr' = "get organizations"
               /\ mainPc' = "done"
               /\ orgIDToName' = orgIDToName
          ELSE /\ orgIDToName' = BuildOrgMap(orgs)
               /\ mainPc' = "launch"
               /\ retErr' = retErr
    /\ UNCHANGED <<apps, next, allViolationRows, retPath, sinkLog>>
    /\ UNCHANGED <<syncVars, taskVars, logVars, ctxDone>>

(***************************************************************************)
(* Fan-out (lines 87-176).                                                 *)
(***************************************************************************)
\* Lines 87-93: one iteration of the launch loop, wg.Add(1) and go func().
Launch ==
    /\ mainPc = "launch"
    /\ next <= Len(apps)
    /\ wg' = wg + 1
    /\ pc' = [pc EXCEPT ![next] = "acquire"]
    /\ next' = next + 1
    /\ UNCHANGED <<mainPc, apps, orgIDToName, allViolationRows, retPath, retErr, sinkLog>>
    /\ UNCHANGED <<sem, resultsChan, chanClosed, closerPc, closes>>
    /\ UNCHANGED <<reportID, orgName, reportRows, logVars, ctxDone>>

\* Lines 173-176: after the loop, the goroutine that waits and closes starts.
StartCloser ==
    /\ mainPc = "launch"
    /\ next > Len(apps)
    /\ closerPc' = "wait"
    /\ mainPc' = "drain"
    /\ UNCHANGED <<apps, orgIDToName, next, allViolationRows, retPath, retErr, sinkLog>>
    /\ UNCHANGED <<sem, resultsChan, chanClosed, wg, closes>>
    /\ UNCHANGED <<taskVars, logVars, ctxDone>>

\* A wait that returns whatever the counter is.
CloserNoWait ==
    /\ closerPc = "wait"
    /\ closerPc' = "close"
    /\ UNCHANGED <<sem, resultsChan, chanClosed, wg, closes>>
    /\ UNCHANGED <<mainVars, taskVars, logVars, ctxDone>>

\* Line 174: wg.Wait() returns once the counter is zero.
CloserWait ==
    /\ closerPc = "wait"
    /\ wg = 0
    /\ closerPc' = "close"
    /\ UNCHANGED <<sem, resultsChan, chanClosed, wg, closes>>
    /\ UNCHANGED <<mainVars, taskVars, logVars, ctxDone>>

\* Line 175: close(resultsChan).
CloserClose ==
    /\ closerPc = "close"
    /\ chanClosed' = TRUE
    /\ closes' = closes + 1
    /\ closerPc' = "done"
    /\ UNCHANGED <<sem, resultsChan, wg>>
    /\ UNCHANGED <<mainVars, taskVars, logVars, ctxDone>>

(***************************************************************************)
(* The goroutine of application apps[i] (lines 93-169).                    *)
(***************************************************************************)
\* A parse check that tests found only, not the empty remainder.
AfterInfoAcceptsEmptyID(app, res, table) ==
    LET cut == Cut(res.ReportHTMLURL, Marker)
    IN  IF res.err
        THEN [to |-> "release", reportID |-> <<>>, orgName |-> ""]
        ELSE IF res.isNil \/ TrimSpace(res.ReportHTMLURL) = <<>>
        THEN [to |-> "release", reportID |-> <<>>, orgName |-> ""]
        ELSE IF ~cut.found
        THEN [to |-> "release", reportID |-> cut.after, orgName |-> ""]
        ELSE [to |-> "getPolicyViolations", reportID |-> cut.after,
              orgName |-> ResolveOrgName(table, app.OrganizationID)]

\* A metadata error that is logged but not returned from: the goroutine goes
\* on to deliver its (empty) rows.
AfterInfoSendsOnError(app, res, table) ==
    LET cut == Cut(res.ReportHTMLURL, Marker)
    IN  IF res.err
        THEN [to |-> "send", reportID |-> <<>>, orgName |-> ""]
        ELSE IF res.isNil \/ TrimSpace(res.ReportHTMLURL) = <<>>
        THEN [to |-> "release", reportID |-> <<>>, orgName |-> ""]
        ELSE IF ~cut.found \/ cut.after = <<>>
        THEN [to |-> "release", reportID |-> cut.after, orgName |-> ""]
        ELSE [to |-> "getPolicyViolations", reportID |-> cut.after,
              orgName |-> ResolveOrgName(table, app.OrganizationID)]

\* What GetLatestReportInfo's result makes the goroutine do (lines 113-137):
\* where it goes next, and the report ID and organization name it holds.
AfterInfo(app, res, table) ==
    LET cut == Cut(res.ReportHTMLURL, Marker)
    IN  IF res.err
        THEN [to |-> "release", reportID |-> <<>>, orgName |-> ""]
        ELSE IF res.isNil \/ TrimSpace(res.ReportHTMLURL) = <<>>
        THEN [to |-> "release", reportID |-> <<>>, orgName |-> ""]
        ELSE IF ~cut.found \/ cut.after = <<>>
        THEN [to |-> "release", reportID |-> cut.after, orgName |-> ""]
        ELSE [to |-> "getPolicyViolations", reportID |-> cut.after,
              orgName |-> ResolveOrgName(table, app.OrganizationID)]

\* Lines 97-99, first case of the select: a ticket is free.
AcquireTicket(i) ==
    /\ pc[i] = "acquire"
    /\ sem < SemCap
    /\ sem' = sem + 1
    /\ acquired' = [acquired EXCEPT ![i] = @ + 1]
    /\ pc' = [pc EXCEPT ![i] = "recheck"]
    /\ UNCHANGED <<resultsChan, chanClosed, wg, closerPc, closes>>
    /\ UNCHANGED <<reportID, orgName, reportRows>>
    /\ UNCHANGED <<infoLog, violLog, released, delivered>>
    /\ UNCHANGED <<mainVars, ctxDone>>

\* A return on cancellation that runs no deferred wg.Done.
AcquireCanceledNoDone(i) ==
    /\ pc[i] = "acquire"
    /\ ctxDone
    /\ pc' = [pc EXCEPT ![i] = "done"]
    /\ UNCHANGED <<reportID, orgName, reportRows>>
    /\ UNCHANGED <<mainVars, syncVars, logVars, ctxDone>>

\* Lines 100-101, second case of the select: return, only wg.Done is deferred.
AcquireCanceled(i) ==
    /\ pc[i] = "acquire"
    /\ ctxDone
    /\ pc' = [pc EXCEPT ![i] = "wgDone"]
    /\ UNCHANGED <<reportID, orgName, reportRows>>
    /\ UNCHANGED <<mainVars, syncVars, logVars, ctxDone>>

\* No re-check: the goroutine goes on to the metadata call.
RecheckIgnoresCancel(i) ==
    /\ pc[i] = "recheck"
    /\ pc' = [pc EXCEPT ![i] = "getLatestReportInfo"]
    /\ UNCHANGED <<reportID, orgName, reportRows>>
    /\ UNCHANGED <<mainVars, syncVars, logVars, ctxDone>>

\* A re-check that returns without the deferred release, as if the release
\* were deferred after it.
RecheckNoRelease(i) ==
    /\ pc[i] = "recheck"
    /\ pc' = [pc EXCEPT ![i] = IF ctxDone THEN "wgDone" ELSE "getLatestReportInfo"]
    /\ UNCHANGED <<reportID, orgName, reportRows>>
    /\ UNCHANGED <<mainVars, syncVars, logVars, ctxDone>>

\* Lines 105-107.
Recheck(i) ==
    /\ pc[i] = "recheck"
    /\ pc' = [pc EXCEPT ![i] = IF ctxDone THEN "release" ELSE "getLatestReportInfo"]
    /\ UNCHANGED <<reportID, orgName, reportRows>>
    /\ UNCHANGED <<mainVars, syncVars, logVars, ctxDone>>

\* Lines 112-137: the metadata call, the blank check, the parse, the lookup.
GetLatestReportInfo(i) ==
    /\ pc[i] = "getLatestReportInfo"
    /\ \E res \in InfoResults :
          LET a == AfterInfo(apps[i], res, orgIDToName)
          IN  /\ infoLog' = [infoLog EXCEPT ![i] = Append(@, res)]
              /\ reportID' = [reportID EXCEPT ![i] = a.reportID]
              /\ orgName' = [orgName EXCEPT ![i] = a.orgName]
              /\ pc' = [pc EXCEPT ![i] = a.to]
    /\ UNCHANGED <<reportRows, violLog, acquired, released, delivered>>
    /\ UNCHANGED <<mainVars, syncVars, ctxDone>>

\* A violation call whose error becomes the error of the run.
GetPolicyViolationsFatal(i) ==
    /\ pc[i] = "getPolicyViolations"
    /\ \E res \in ViolationResults(apps[i].PublicID, reportID[i], orgName[i]) :
          /\ violLog' = [violLog EXCEPT ![i] =
                Append(@, [appPublicID |-> apps[i].PublicID, reportID |-> reportID[i],
                           orgName |-> orgName[i], res |-> res])]
          /\ IF res.err
             THEN /\ pc' = [pc EXCEPT ![i] = "release"]
                  /\ reportRows' = reportRows
                  /\ retErr' = "get policy violations"
             ELSE /\ pc' = [pc EXCEPT ![i] = "send"]
                  /\ reportRows' = [reportRows EXCEPT ![i] = ConvertRows(res.rows)]
                  /\ retErr' = retErr
    /\ UNCHANGED <<reportID, orgName, infoLog, acquired, released, delivered>>
    /\ UNCHANGED <<mainPc, apps, orgIDToName, next, allViolationRows, retPath, sinkLog>>
    /\ UNCHANGED <<syncVars, ctxDone>>

\* Lines 140-162: the violation call and the conversion of its rows.
GetPolicyViolations(i) ==
    /\ pc[i] = "getPolicyViolations"
    /\ \E res \in ViolationResults(apps[i].PublicID, reportID[i], orgName[i]) :
          /\ violLog' = [violLog EXCEPT ![i] =
                Append(@, [appPublicID |-> apps[i].PublicID, reportID |-> reportID[i],
                           orgName |-> orgName[i], res |-> res])]
          /\ IF res.err
             THEN /\ pc' = [pc EXCEPT ![i] = "release"]
                  /\ reportRows' = reportRows
             ELSE /\ pc' = [pc EXCEPT ![i] = "send"]
                  /\ reportRows' = [reportRows EXCEPT ![i] = ConvertRows(res.rows)]
    /\ UNCHANGED <<reportID, orgName, infoLog, acquired, released, delivered>>
    /\ UNCHANGED <<mainVars, syncVars, ctxDone>>

\* A send that is repeated.
DeliverTwice(i) ==
    /\ pc[i] = "send"
    /\ ~chanClosed
    /\ Len(resultsChan) < ResultsCap
    /\ resultsChan' = resultsChan \o
          << [Rows |-> reportRows[i], Err |-> ""], [Rows |-> reportRows[i], Err |-> ""] >>
    /\ delivered' = [delivered EXCEPT ![i] = @ + 2]
    /\ pc' = [pc EXCEPT ![i] = "release"]
    /\ UNCHANGED <<sem, chanClosed, wg, closerPc, closes>>
    /\ UNCHANGED <<reportID, orgName, reportRows>>
    /\ UNCHANGED <<infoLog, violLog, acquired, released>>
    /\ UNCHANGED <<mainVars, ctxDone>>

\* Lines 165-166, first case of the select: the buffer has room.
Deliver(i) ==
    /\ pc[i] = "send"
    /\ ~chanClosed
    /\ Len(resultsChan) < ResultsCap
    /\ resultsChan' = Append(resultsChan, [Rows |-> reportRows[i], Err |-> ""])
    /\ delivered' = [delivered EXCEPT ![i] = @ + 1]
    /\ pc' = [pc EXCEPT ![i] = "release"]
    /\ UNCHANGED <<sem, chanClosed, wg, closerPc, closes>>
    /\ UNCHANGED <<reportID, orgName, reportRows>>
    /\ UNCHANGED <<infoLog, violLog, acquired, released>>
    /\ UNCHANGED <<mainVars, ctxDone>>

\* Lines 167-168, second case of the select: the result is dropped.
DeliverCanceled(i) ==
    /\ pc[i] = "send"
    /\ ctxDone
    /\ pc' = [pc EXCEPT ![i] = "release"]
    /\ UNCHANGED <<reportID, orgName, reportRows>>
    /\ UNCHANGED <<mainVars, syncVars, logVars, ctxDone>>

\* Line 99, deferred: <-sem.
Release(i) ==
    /\ pc[i] = "release"
    /\ sem > 0
    /\ sem' = sem - 1
    /\ released' = [released EXCEPT ![i] = @ + 1]
    /\ pc' = [pc EXCEPT ![i] = "wgDone"]
    /\ UNCHANGED <<resultsChan, chanClosed, wg, closerPc, closes>>
    /\ UNCHANGED <<reportID, orgName, reportRows>>
    /\ UNCHANGED <<infoLog, violLog, acquired, delivered>>
    /\ UNCHANGED <<mainVars, ctxDone>>

\* Line 94, deferred: wg.Done().
WgDone(i) ==
    /\ pc[i] = "wgDone"
    /\ wg' = wg - 1
    /\ pc' = [pc EXCEPT ![i] = "done"]
    /\ UNCHANGED <<sem, resultsChan, chanClosed, closerPc, closes>>
    /\ UNCHANGED <<reportID, orgName, reportRows>>
    /\ UNCHANGED <<mainVars, logVars, ctxDone>>

(***************************************************************************)
(* Fan-in and the CSV (lines 179-200).                                     *)
(***************************************************************************)
\* An iteration that appends all rows of the result but the last.
DrainSkipLast ==
    /\ mainPc = "drain"
    /\ resultsChan # <<>>
    /\ allViolationRows' = allViolationRows \o
          SubSeq(Head(resultsChan).Rows, 1, Len(Head(resultsChan).Rows) - 1)
    /\ resultsChan' = Tail(resultsChan)
    /\ UNCHANGED <<mainPc, apps, orgIDToName, next, retPath, retErr, sinkLog>>
    /\ UNCHANGED <<sem, chanClosed, wg, closerPc, closes>>
    /\ UNCHANGED <<taskVars, logVars, ctxDone>>

\* Lines 181-184: one iteration of the range loop.
Drain ==
    /\ mainPc = "drain"
    /\ resultsChan # <<>>
    /\ allViolationRows' = allViolationRows \o Head(resultsChan).Rows
    /\ resultsChan' = Tail(resultsChan)
    /\ UNCHANGED <<mainPc, apps, orgIDToName, next, retPath, retErr, sinkLog>>
    /\ UNCHANGED <<sem, chanClosed, wg, closerPc, closes>>
    /\ UNCHANGED <<taskVars, logVars, ctxDone>>

\* An end of the loop that returns the context's error when it is canceled.
DrainEndOnCancel ==
    /\ mainPc = "drain"
    /\ resultsChan = <<>>
    /\ chanClosed
    /\ IF ctxDone
       THEN mainPc' = "done" /\ retErr' = "context canceled"
       ELSE mainPc' = "writeCSV" /\ retErr' = retErr
    /\ UNCHANGED <<apps, orgIDToName, next, allViolationRows, retPath, sinkLog>>
    /\ UNCHANGED <<syncVars, taskVars, logVars, ctxDone>>

\* A loop that ends as soon as the buffer is empty, closed or not.
DrainEndEarly ==
    /\ mainPc = "drain"
    /\ resultsChan = <<>>
    /\ mainPc' = "writeCSV"
    /\ UNCHANGED <<apps, orgIDToName, next, allViolationRows, retPath, retErr, sinkLog>>
    /\ UNCHANGED <<syncVars, taskVars, logVars, ctxDone>>

\* Line 181: the range loop ends on the closed and empty channel.
DrainEnd ==
    /\ mainPc = "drain"
    /\ resultsChan = <<>>
    /\ chanClosed
    /\ mainPc' = "writeCSV"
    /\ UNCHANGED <<apps, orgIDToName, next, allViolationRows, retPath, retErr, sinkLog>>
    /\ UNCHANGED <<syncVars, taskVars, logVars, ctxDone>>

\* A write whose error is logged and not returned.
WriteCSVSwallowsError ==
    /\ mainPc = "writeCSV"
    /\ \E failed \in BOOLEAN :
          /\ sinkLog' = Append(sinkLog,
                [path |-> Target, rows |-> allViolationRows, failed |-> failed])
          /\ retErr' = retErr /\ retPath' = Target
    /\ mainPc' = "done"
    /\ UNCHANGED <<apps, orgIDToName, next, allViolationRows>>
    /\ UNCHANGED <<syncVars, taskVars, logVars, ctxDone>>

\* A write that refuses an empty aggregate with an error of its own.
WriteCSVRejectsEmpty ==
    /\ mainPc = "writeCSV"
    /\ IF allViolationRows = <<>>
       THEN /\ retErr' = "no violations found"
            /\ UNCHANGED <<retPath, sinkLog>>
       ELSE \E failed \in BOOLEAN :
               /\ sinkLog' = Append(sinkLog,
                     [path |-> Target, rows |-> allViolationRows, failed |-> failed])
               /\ IF failed
                  THEN retErr' = "write csv" /\ retPath' = retPath
                  ELSE retErr' = retErr /\ retPath' = Target
    /\ mainPc' = "done"
    /\ UNCHANGED <<apps, orgIDToName, next, allViolationRows>>
    /\ UNCHANGED <<syncVars, taskVars, logVars, ctxDone>>

\* Lines 190-199: report.WriteCSV and the return.
WriteCSV ==
    /\ mainPc = "writeCSV"
    /\ \E failed \in BOOLEAN :
          /\ sinkLog' = Append(sinkLog,
                [path |-> Target, rows |-> allViolationRows, failed |-> failed])
          /\ IF failed
             THEN retErr' = "write csv" /\ retPath' = retPath
             ELSE retErr' = retErr /\ retPath' = Target
    /\ mainPc' = "done"
    /\ UNCHANGED <<apps, orgIDToName, next, allViolationRows>>
    /\ UNCHANGED <<syncVars, taskVars, logVars, ctxDone>>

Task(i) ==
    \/ AcquireTicket(i)
    \/ AcquireCanceled(i)
    \/ Recheck(i)
    \/ GetLatestReportInfo(i)
    \/ GetPolicyViolations(i)
    \/ Deliver(i)
    \/ DeliverCanceled(i)
    \/ Release(i)
    \/ WgDone(i)

Main ==
    \/ GetApplications
    \/ GetOrganizations
    \/ Launch
    \/ StartCloser
    \/ Drain
    \/ DrainEnd
    \/ WriteCSV

Closer == CloserWait \/ CloserClose

Next ==
    \/ Cancel
    \/ Main
    \/ Closer
    \/ \E i \in Tasks : Task(i)

Spec == Init /\ [][Next]_vars

\* The scheduler runs every goroutine that can take a step, and every remote
\* call returns; the caller is never obliged to cancel.
Fairness ==
    /\ WF_vars(Main)
    /\ WF_vars(Closer)
    /\ \A i \in Tasks : WF_vars(Task(i))

FairSpec == Spec /\ Fairness


(***************************************************************************)
(* Properties.                                                             *)
(***************************************************************************)
Launched == {i \in Tasks : pc[i] # "idle"}

\* Goroutines that hold a ticket: past the send on sem, before the receive.
Holding == {i \in Tasks : acquired[i] > released[i]}

\* The violation fetch of goroutine i returned rows.
FetchOK(i) == violLog[i] # <<>> /\ ~violLog[i][1].res.err

\* The violation fetch of goroutine i returned an error.
FetchFailed(i) == violLog[i] # <<>> /\ violLog[i][1].res.err

\* The rows the remote source returned to goroutine i, none without a fetch.
Fetched(i) == IF FetchOK(i) THEN violLog[i][1].res.rows ELSE <<>>

\* The rows fetched by the goroutines of D, in index order.
RECURSIVE FetchedBy(_, _)
FetchedBy(D, n) ==
    IF n = 0 THEN <<>>
    ELSE FetchedBy(D, n - 1) \o (IF n \in D THEN Fetched(n) ELSE <<>>)

Count(s, r) == Cardinality({k \in DOMAIN s : s[k] = r})

\* s and t hold the same rows the same number of times.
SameRows(s, t) ==
    /\ Len(s) = Len(t)
    /\ \A k \in DOMAIN s : Count(s, s[k]) = Count(t, s[k])

SinkCalled == sinkLog # <<>>

\* C1: at most maxConcurrency goroutines hold a ticket, in every state, with
\* or without cancellation.
AdmissionBound == Cardinality(Holding) <= maxConcurrency

\* C1 witness: the tickets are all taken and a goroutine waits for one.
AdmissionBoundWitness ==
    /\ Cardinality(Holding) = maxConcurrency
    /\ \E i \in Tasks : pc[i] = "acquire"

\* C2: without cancellation, the rows handed to the sink are exactly the rows
\* of the goroutines whose fetches all succeeded, each as often as fetched;
\* the others contribute nothing, and every goroutine ran to its end.
AggregateIsUnionOfSuccesses ==
    (mainPc = "done" /\ SinkCalled /\ ~ctxDone) =>
        /\ SameRows(sinkLog[1].rows, FetchedBy({i \in Tasks : FetchOK(i)}, MaxApps))
        /\ \A i \in 1..Len(apps) :
              ~FetchOK(i) => \A k \in DOMAIN sinkLog[1].rows :
                                sinkLog[1].rows[k].Application # apps[i].PublicID
        /\ \A i \in 1..Len(apps) : pc[i] = "done"

\* C2 witness: a run without cancellation in which one goroutine failed and
\* another one's rows reached the sink.
AggregateIsUnionOfSuccessesWitness ==
    /\ mainPc = "done" /\ SinkCalled /\ ~ctxDone
    /\ \E i, j \in 1..Len(apps) :
          /\ infoLog[i] # <<>> /\ ~FetchOK(i)
          /\ FetchOK(j) /\ Len(Fetched(j)) > 0
          /\ Len(sinkLog[1].rows) > 0

\* Every remote call made for goroutine i returned without an error.
CallsSucceeded(i) ==
    /\ infoLog[i] # <<>> /\ ~infoLog[i][1].err
    /\ ~FetchFailed(i)

\* C3: when every remote call succeeds and the run is not canceled, the
\* aggregate has as many rows as the violation fetches returned in total.
RowCountIsSum ==
    (/\ mainPc = "done" /\ SinkCalled /\ ~ctxDone
     /\ \A i \in 1..Len(apps) : CallsSucceeded(i)) =>
        Len(sinkLog[1].rows) = Len(FetchedBy(1..Len(apps), MaxApps))

\* C3 witness: such a run, every application with rows.
RowCountIsSumWitness ==
    /\ mainPc = "done" /\ SinkCalled /\ ~ctxDone
    /\ Len(apps) > 1
    /\ \A i \in 1..Len(apps) : CallsSucceeded(i) /\ Len(Fetched(i)) = MaxRows
    /\ Len(sinkLog[1].rows) = Len(apps) * MaxRows

\* C4: when exactly one application fails at the violation fetch and all the
\* others succeed, without cancellation, the aggregate is the others' rows,
\* none of the failed one's, and the run returns the path and no error
\* unless the write failed.
OneViolationFailure ==
    \A f \in 1..Len(apps) :
        (/\ mainPc = "done" /\ SinkCalled /\ ~ctxDone
         /\ FetchFailed(f)
         /\ \A i \in 1..Len(apps) : i # f => FetchOK(i)) =>
            /\ SameRows(sinkLog[1].rows, FetchedBy(1..Len(apps) \ {f}, MaxApps))
            /\ \A k \in DOMAIN sinkLog[1].rows :
                  sinkLog[1].rows[k].Application # apps[f].PublicID
            /\ ~sinkLog[1].failed => (retErr = "" /\ retPath = Target)

\* C4 witness: such a run, the write succeeded, the other application's rows
\* are in the file.
OneViolationFailureWitness ==
    /\ mainPc = "done" /\ SinkCalled /\ ~ctxDone /\ ~sinkLog[1].failed
    /\ Len(apps) > 1
    /\ \E f \in 1..Len(apps) :
          /\ FetchFailed(f)
          /\ \A i \in 1..Len(apps) : i # f => FetchOK(i) /\ Len(Fetched(i)) > 0
    /\ Len(sinkLog[1].rows) > 0

\* The application list came back, and it was empty.
EmptyListReturned ==
    mainPc # "getApplications" /\ retErr # "get applications" /\ Len(apps) = 0

\* C5: an empty application list ends the run at once with "no applications
\* found": no goroutine, no report or violation call, no write.
EmptyListFails ==
    EmptyListReturned =>
        /\ mainPc = "done"
        /\ retErr = "no applications found" /\ retPath = ""
        /\ Launched = {} /\ wg = 0 /\ closerPc = "idle"
        /\ \A i \in Tasks : infoLog[i] = <<>> /\ violLog[i] = <<>>
        /\ ~SinkCalled

\* C5 witness: the list came back empty.
EmptyListFailsWitness == EmptyListReturned /\ retErr = "no applications found"

\* The run has returned, every goroutine it started has ended, and the
\* results channel is closed if the fan-out began.
Quiescent ==
    /\ mainPc = "done"
    /\ \A i \in Tasks : pc[i] \in {"idle", "done"}
    /\ closerPc \in {"idle", "done"}
    /\ closerPc = "done" => chanClosed /\ resultsChan = <<>>

\* C6: under fair scheduling, with remote calls that return, the run returns
\* whenever the context is canceled or not: every goroutine ends, the
\* channel is closed, the drain loop ends.
Terminates == <>Quiescent

\* C6 witness: the run has returned although the context was canceled while a
\* goroutine waited for a ticket that another one held.
TerminatesWitness ==
    /\ Quiescent /\ ctxDone /\ closerPc = "done"
    /\ \E i, j \in 1..Len(apps) :
          /\ pc[i] = "done" /\ acquired[i] = 0
          /\ pc[j] = "done" /\ acquired[j] = 1 /\ infoLog[j] # <<>>

\* The rows of application i in s.
RowsOf(s, i) == {k \in DOMAIN s : s[k].Application = apps[i].PublicID}

\* s is made of whole contributions of goroutines whose fetch succeeded.
WholeContributions(s) ==
    /\ \E D \in SUBSET {i \in Tasks : FetchOK(i)} : SameRows(s, FetchedBy(D, MaxApps))
    /\ \A i \in 1..Len(apps) :
          Cardinality(RowsOf(s, i)) \in {0, Len(Fetched(i))}

\* C7: once the context is canceled, the aggregate, and what the sink gets,
\* holds for each application all the rows its fetch returned or none, and
\* no other row.
CanceledAggregateIsWhole ==
    ctxDone =>
        /\ WholeContributions(allViolationRows)
        /\ \A k \in DOMAIN sinkLog : WholeContributions(sinkLog[k].rows)

\* C7 witness: a canceled run that kept one application's rows and dropped
\* another's.
CanceledAggregateIsWholeWitness ==
    /\ mainPc = "done" /\ SinkCalled /\ ctxDone
    /\ \E i, j \in 1..Len(apps) :
          /\ FetchOK(i) /\ Len(Fetched(i)) > 1 /\ delivered[i] = 0 /\ pc[i] = "done"
          /\ FetchOK(j) /\ Len(Fetched(j)) > 1 /\ delivered[j] = 1
          /\ Len(sinkLog[1].rows) = Len(Fetched(j))

RunErrors ==
    {"", "get applications", "no applications found", "get organizations", "write csv"}

\* C8: the run fails only with one of its own four errors; once the
\* application list is non-empty and the organization list is fetched, it
\* fails if and only if the write fails, whatever the goroutines met.
OnlyRunLevelErrors ==
    /\ retErr \in RunErrors
    /\ (mainPc = "done" /\ Len(apps) > 0 /\ retErr # "get organizations") =>
          /\ SinkCalled
          /\ retErr # "" <=> sinkLog[1].failed
          /\ retErr # "" => retErr = "write csv"
          /\ retErr = "" => retPath = Target

\* C8 witness: every application failed, one at the metadata fetch and one at
\* the violation fetch, and the run returned the path.
OnlyRunLevelErrorsWitness ==
    /\ mainPc = "done" /\ retErr = "" /\ retPath = Target
    /\ \A i \in 1..Len(apps) : infoLog[i] # <<>> /\ ~FetchOK(i)
    /\ \E i, j \in 1..Len(apps) : infoLog[i][1].err /\ FetchFailed(j)

InfoGood(i) ==
    /\ infoLog[i] # <<>>
    /\ ~infoLog[i][1].err /\ ~infoLog[i][1].isNil
    /\ infoLog[i][1].ReportHTMLURL = GoodURL

\* C10: the name given to the violation fetch, and carried by the
\* application's rows, is the table's name for the organization ID, or the
\* raw ID when the table has none; a missing name costs no call and no row.
OrgNameResolved ==
    \A i \in 1..Len(apps) :
        LET id == apps[i].OrganizationID
            mapped == id \in DOMAIN orgIDToName
            name == IF mapped THEN orgIDToName[id] ELSE id
        IN  /\ \A k \in DOMAIN violLog[i] : violLog[i][k].orgName = name
            /\ \A k \in RowsOf(allViolationRows, i) :
                  allViolationRows[k].Organization = name
            /\ \A c \in DOMAIN sinkLog : \A k \in RowsOf(sinkLog[c].rows, i) :
                  sinkLog[c].rows[k].Organization = name
            /\ (~mapped /\ InfoGood(i) /\ pc[i] \in {"release", "wgDone", "done"}) =>
                  violLog[i] # <<>>
            /\ (~mapped /\ FetchOK(i) /\ pc[i] = "done" /\ ~ctxDone) =>
                  delivered[i] = 1

\* C10 witness: the file holds rows of an application whose organization the
\* table names and rows of one whose organization it does not.
OrgNameResolvedWitness ==
    /\ SinkCalled
    /\ \E i, j \in 1..Len(apps) :
          /\ apps[i].OrganizationID \in DOMAIN orgIDToName
          /\ apps[j].OrganizationID \notin DOMAIN orgIDToName
          /\ \E k \in RowsOf(sinkLog[1].rows, i) :
                sinkLog[1].rows[k].Organization = "Org A"
          /\ \E k \in RowsOf(sinkLog[1].rows, j) :
                sinkLog[1].rows[k].Organization = apps[j].OrganizationID

\* Goroutine i is past its last deferred receive from sem, or never had one
\* to run.
Exited(i) == pc[i] \in {"wgDone", "done"}

\* C11: a goroutine takes at most one ticket and gives back exactly the one
\* it took, on every way out; one that left the wait on cancellation took
\* none, gives none back, and called and delivered nothing.  So sem counts
\* the holders: never below zero, never short of another's ticket.
TicketAccounting ==
    /\ \A i \in Tasks :
          /\ acquired[i] <= 1
          /\ released[i] <= acquired[i]
          /\ Exited(i) => released[i] = acquired[i]
          /\ pc[i] \in {"idle", "acquire"} => acquired[i] = 0
          /\ pc[i] \in {"recheck", "getLatestReportInfo", "getPolicyViolations",
                        "send", "release"} =>
                (acquired[i] = 1 /\ released[i] = 0)
          /\ acquired[i] = 0 =>
                (infoLog[i] = <<>> /\ violLog[i] = <<>> /\ delivered[i] = 0)
    /\ sem >= 0
    /\ sem = Cardinality(Holding)

\* C11 witness: one goroutine left the wait on cancellation without a
\* ticket, another left at the re-check and gave its ticket back.
TicketAccountingWitness ==
    \E i, j \in 1..Len(apps) :
        /\ pc[i] = "done" /\ acquired[i] = 0 /\ released[i] = 0
        /\ pc[j] = "done" /\ acquired[j] = 1 /\ released[j] = 1
        /\ infoLog[j] = <<>>
        /\ sem = 0

\* The rows of the results that were sent, as s holds them.
DeliveredRows(s) ==
    SameRows(s, FetchedBy({i \in Tasks : delivered[i] = 1}, MaxApps))

\* C12: resultsChan is closed once, and only when every goroutine of the run
\* has ended; no goroutine is at its send on the closed channel; and when the
\* drain loop has ended it has read every result that was sent.
CloseAfterAllTerminated ==
    /\ closes <= 1
    /\ chanClosed <=> closes = 1
    /\ chanClosed =>
          /\ next > Len(apps)
          /\ \A i \in 1..Len(apps) : pc[i] = "done"
          /\ wg = 0
    /\ \A i \in Tasks : pc[i] = "send" => ~chanClosed
    /\ (closerPc # "idle" /\ mainPc \in {"writeCSV", "done"}) =>
          /\ chanClosed /\ resultsChan = <<>>
          /\ DeliveredRows(allViolationRows)

\* C12 witness: the channel is closed while results sent before the close
\* wait in its buffer for the drain loop.
CloseAfterAllTerminatedWitness ==
    /\ chanClosed /\ closes = 1
    /\ mainPc = "drain"
    /\ Len(resultsChan) > 1

\* C13: a goroutine sends at most once and no row is in the aggregate twice;
\* a goroutine leaves its send with the result sent, or, only if the context
\* is canceled, without.
AtMostOnceDelivery ==
    [][ /\ \A i \in Tasks :
              /\ delivered'[i] <= 1
              /\ (pc[i] = "send" /\ pc'[i] # "send") =>
                    \/ delivered'[i] = delivered[i] + 1
                    \/ ctxDone /\ delivered'[i] = delivered[i]
        /\ \A k \in DOMAIN allViolationRows' :
              Count(allViolationRows', allViolationRows'[k]) = 1
      ]_vars

\* C13 witness: under cancellation one goroutine has left its send without
\* sending, after another one had sent.
AtMostOnceDeliveryWitness ==
    /\ ctxDone
    /\ \E i, j \in 1..Len(apps) :
          /\ pc[i] = "release" /\ FetchOK(i) /\ delivered[i] = 0
          /\ delivered[j] = 1 /\ Len(Fetched(j)) > 0

\* Positions of a goroutine that has made no remote call and can make none
\* without passing the re-check.
BeforeCalls == {"idle", "acquire", "recheck"}

\* Positions after which a goroutine makes no call and no send.
WayOut == {"release", "wgDone", "done"}

\* Goroutine i has left at the re-check of lines 105-107.
LeftAtRecheck(i) == acquired[i] = 1 /\ pc[i] \in WayOut /\ infoLog[i] = <<>>

\* C14: a goroutine that meets the canceled context at the re-check leaves
\* by the release, with no remote call and no result; so from the moment the
\* context is canceled a goroutine that has not passed the re-check never
\* makes a remote call.
RecheckStopsCanceled ==
    [][ \A i \in Tasks :
          /\ (ctxDone /\ pc[i] = "recheck" /\ pc'[i] # "recheck") =>
                pc'[i] = "release"
          /\ (ctxDone /\ pc[i] \in BeforeCalls \cup WayOut) =>
                /\ pc'[i] \in BeforeCalls \cup WayOut
                /\ infoLog'[i] = infoLog[i] /\ violLog'[i] = violLog[i]
                /\ delivered'[i] = delivered[i]
          /\ LeftAtRecheck(i)' =>
                /\ violLog'[i] = <<>> /\ delivered'[i] = 0
                /\ Exited(i)' => released'[i] = 1
      ]_vars

\* C14 witness: a goroutine took a ticket, met the canceled context at the
\* re-check, and has given the ticket back without a call.
RecheckStopsCanceledWitness ==
    /\ ctxDone
    /\ \E i \in 1..Len(apps) :
          /\ LeftAtRecheck(i) /\ pc[i] = "wgDone" /\ released[i] = 1
          /\ violLog[i] = <<>> /\ delivered[i] = 0

\* The metadata of goroutine i came back without an error and without a
\* usable report location: absent, blank, no marker, or nothing after it.
NoReportLocation(i) ==
    /\ infoLog[i] # <<>> /\ ~infoLog[i][1].err
    /\ \/ infoLog[i][1].isNil
       \/ infoLog[i][1].ReportHTMLURL \in {BlankURL, NoMarkerURL, NoIDURL}

\* C15: a goroutine without a usable report location makes no violation
\* call, contributes no row and gives its ticket back; the run still hands
\* the other applications' rows to the sink and succeeds if the write does.
ReportLocationHandling ==
    /\ \A i \in 1..Len(apps) :
          NoReportLocation(i) =>
              /\ pc[i] \in WayOut
              /\ violLog[i] = <<>> /\ delivered[i] = 0
              /\ RowsOf(allViolationRows, i) = {}
              /\ Exited(i) => released[i] = 1
    /\ (/\ mainPc = "done" /\ SinkCalled /\ ~ctxDone
        /\ \E i \in 1..Len(apps) : NoReportLocation(i)) =>
          /\ SameRows(sinkLog[1].rows,
                      FetchedBy({i \in 1..Len(apps) : ~NoReportLocation(i)}, MaxApps))
          /\ ~sinkLog[1].failed => (retErr = "" /\ retPath = Target)

\* C15 witness: applications [A1, A2], A1 with two rows, A2 with a blank
\* report location; the file holds exactly A1's two rows and the run succeeds.
ReportLocationHandlingWitness ==
    /\ mainPc = "done" /\ retErr = "" /\ retPath = Target
    /\ Len(apps) > 1
    /\ Len(Fetched(1)) > 1
    /\ NoReportLocation(2) /\ infoLog[2][1].ReportHTMLURL = BlankURL
    /\ sinkLog[1].rows = Fetched(1)

\* The run is past both prerequisite fetches, each without an error.
PrerequisitesFetched ==
    /\ mainPc \in {"launch", "drain", "writeCSV", "done"}
    /\ Len(apps) > 0
    /\ retErr \notin {"get applications", "no applications found", "get organizations"}

\* Nothing of the fan-out, the fan-in or the write has happened.
NothingStarted ==
    /\ Launched = {} /\ wg = 0 /\ sem = 0
    /\ closerPc = "idle" /\ ~chanClosed
    /\ \A i \in Tasks : infoLog[i] = <<>> /\ violLog[i] = <<>>
    /\ ~SinkCalled

\* C16: before both lists are fetched no goroutine is started and no report
\* or violation call is made; a failure of either fetch ends the run at once
\* with its error, nothing started and nothing written.
PrerequisitesFirst ==
    /\ ~PrerequisitesFetched => NothingStarted
    /\ retErr \in {"get applications", "get organizations"} =>
          (mainPc = "done" /\ retPath = "" /\ NothingStarted)
    /\ retErr = "get applications" => apps = <<>>

\* C16 witness: the application list came, the organization list failed, and
\* the run has ended with that error.
PrerequisitesFirstWitness ==
    /\ mainPc = "done" /\ retErr = "get organizations"
    /\ Len(apps) > 1
    /\ NothingStarted

\* Every goroutine of the run has ended, every ticket is back, and the
\* results channel is closed and empty.
FanInComplete ==
    /\ next > Len(apps)
    /\ \A i \in 1..Len(apps) : pc[i] = "done"
    /\ wg = 0 /\ sem = 0 /\ Holding = {}
    /\ closerPc = "done" /\ chanClosed /\ resultsChan = <<>>

\* C17: report.WriteCSV is called at most once, only after the fan-in is
\* complete, with the target path and exactly the drained aggregate; if it
\* fails the run returns the error and no path.
SinkAfterFanIn ==
    /\ Len(sinkLog) <= 1
    /\ mainPc = "writeCSV" => (FanInComplete /\ ~SinkCalled)
    /\ SinkCalled =>
          /\ mainPc = "done" /\ FanInComplete
          /\ sinkLog[1].path = Target
          /\ sinkLog[1].rows = allViolationRows
          /\ DeliveredRows(sinkLog[1].rows)
          /\ sinkLog[1].failed => (retErr = "write csv" /\ retPath = "")

\* C17 witness: the write was given rows and failed, and the run returned
\* the error.
SinkAfterFanInWitness ==
    /\ SinkCalled /\ sinkLog[1].failed
    /\ Len(sinkLog[1].rows) > 0
    /\ retErr = "write csv" /\ retPath = ""

\* The rows of application i are in s as one block, in the order fetched.
OneBlock(s, i) ==
    \/ RowsOf(s, i) = {}
    \/ /\ Cardinality(RowsOf(s, i)) = Len(Fetched(i))
       /\ \E start \in DOMAIN s :
             /\ start + Len(Fetched(i)) - 1 <= Len(s)
             /\ SubSeq(s, start, start + Len(Fetched(i)) - 1) = Fetched(i)

\* C18: in the aggregate, and in what the sink gets, the rows of each
\* application are one contiguous block in the order of its fetch.
ContributionOrder ==
    \A i \in 1..Len(apps) :
        /\ OneBlock(allViolationRows, i)
        /\ \A c \in DOMAIN sinkLog : OneBlock(sinkLog[c].rows, i)

\* C18 witness: the file holds the block of the second application before
\* the block of the first.
ContributionOrderWitness ==
    /\ SinkCalled /\ Len(apps) > 1
    /\ Len(Fetched(1)) > 1 /\ Len(Fetched(2)) > 1
    /\ sinkLog[1].rows = Fetched(2) \o Fetched(1)

\* C19: the buffer of resultsChan never holds more than one result per
\* application, and a goroutine at its send always finds room on the open
\* channel, whatever the drain loop has done.
DeliveryNeverBlocks ==
    /\ Len(resultsChan) <= Len(apps)
    /\ Len(resultsChan) <= Cardinality({i \in Tasks : delivered[i] = 1})
    /\ \A i \in Tasks :
          pc[i] = "send" =>
              /\ Len(resultsChan) < Len(apps) /\ ~chanClosed
              /\ ENABLED Deliver(i)

\* C19 witness: a goroutine is at its send while the results of all the
\* others are in the buffer and the drain loop has not begun.
DeliveryNeverBlocksWitness ==
    /\ mainPc = "launch" /\ Len(apps) > 1
    /\ Len(resultsChan) = Len(apps) - 1
    /\ \E i \in 1..Len(apps) : pc[i] = "send"

\* C20: a cancellation during the fan-out is no error of the run: the run
\* still waits for the goroutines, drains what was sent, calls the sink with
\* it, and returns the path and no error when the write succeeds.
CancelNotSurfaced ==
    (mainPc = "done" /\ ctxDone /\ PrerequisitesFetched) =>
        /\ FanInComplete
        /\ SinkCalled /\ sinkLog[1].rows = allViolationRows
        /\ WholeContributions(sinkLog[1].rows)
        /\ retErr \in {"", "write csv"}
        /\ ~sinkLog[1].failed => (retErr = "" /\ retPath = Target)

\* C20 witness: the context was canceled while a goroutine waited for a
\* ticket; the run wrote the rows of another one and returned the path.
CancelNotSurfacedWitness ==
    /\ mainPc = "done" /\ ctxDone /\ retErr = "" /\ retPath = Target
    /\ \E i, j \in 1..Len(apps) :
          /\ acquired[i] = 0 /\ pc[i] = "done"
          /\ delivered[j] = 1 /\ Len(Fetched(j)) > 0
          /\ sinkLog[1].rows = Fetched(j)

====
